---- MODULE Spec2Model ----
(***************************************************************************)
(* A model of TripplannerBot: the tools of chatTools.py, the tool-end      *)
(* callback of chatCallback.py and the Streamlit script of main.py.        *)
(*                                                                         *)
(* Text that the code only concatenates is a TLA+ string; text that the    *)
(* code inspects character by character (the transport mode, a location    *)
(* that is URL-encoded or geocoded, the route URL) is the sequence of its  *)
(* code points, so that every character of Python's str has its place.     *)
(***************************************************************************)
EXTENDS Integers, Sequences, FiniteSets, TLC

VARIABLES
    messages,       \* st.session_state.messages (main.py:25-28)
    pc,             \* where the Streamlit script stands: "idle" | "agent"
    prompt,         \* the value of `prompt` in the current script run
    uuid_count,     \* how many uuid4 values have been drawn (main.py:64)
    tool_calls,     \* tool invocations made in the current agent run
    turns,          \* user prompts submitted so far
    now,            \* wall clock, in whole seconds
    dispatched,     \* times at which geocode provider calls were dispatched
    last_tool,      \* the last tool completion seen by on_tool_end
    ui_error,       \* the exception that ended the last script run, or "None"
    fn_in,          \* input of the function under study (function specs)
    fn_out          \* its result

vars == <<messages, pc, prompt, uuid_count, tool_calls, turns, now,
          dispatched, last_tool, ui_error, fn_in, fn_out>>

ui_vars == <<messages, pc, prompt, uuid_count, tool_calls, turns, now,
             dispatched, last_tool, ui_error>>

-----------------------------------------------------------------------------
(* Bounds of the model *)

MaxModeTokens == 2
MaxLocations == 2
MaxItems == 2
MaxPlaces == 2
MaxClock == 2
MaxGeoCalls == 3
MaxTurns == 2
MaxToolCalls == 2

-----------------------------------------------------------------------------
(* Character strings *)

\* the printable ASCII characters in code order, from ' ' (32) to '~' (126);
\* the grave accent (96) cannot stand in a string of a module, its place is
\* held by the empty string
ASCII ==
    <<" ","!","\"","#","$","%","&","'","(",")","*","+",",","-",".","/",
      "0","1","2","3","4","5","6","7","8","9",":",";","<","=",">","?",
      "@","A","B","C","D","E","F","G","H","I","J","K","L","M","N","O",
      "P","Q","R","S","T","U","V","W","X","Y","Z","[","\\","]","^","_",
      "","a","b","c","d","e","f","g","h","i","j","k","l","m","n","o",
      "p","q","r","s","t","u","v","w","x","y","z","{","|","}","~">>

\* Python's ord() of a printable ASCII character
ord(c) == 31 + (CHOOSE i \in DOMAIN ASCII : ASCII[i] = c)

\* the str written as a sequence of printable ASCII characters
chars(s) == [i \in 1..Len(s) |-> ord(s[i])]

UPPER == chars(<<"A","B","C","D","E","F","G","H","I","J","K","L","M",
                 "N","O","P","Q","R","S","T","U","V","W","X","Y","Z">>)
LOWER == chars(<<"a","b","c","d","e","f","g","h","i","j","k","l","m",
                 "n","o","p","q","r","s","t","u","v","w","x","y","z">>)

\* the concatenation of a sequence of character strings
RECURSIVE Flatten(_)
Flatten(ss) == IF ss = <<>> THEN <<>> ELSE Head(ss) \o Flatten(Tail(ss))

\* all sequences over S of length at most n
SeqsUpTo(S, n) == UNION {[1..k -> S] : k \in 0..n}

\* c lies in one of the ranges <<first, last>> of the set rs
InRanges(c, rs) == \E r \in rs : r[1] <= c /\ c <= r[2]

\* The simple lowercase mappings of Unicode 14 (Python 3.11), as ranges
\* <<first, last, step, delta>>: the code points first, first + step, ...,
\* last each map to themselves plus delta.
LowerRanges ==
    {
      <<65,90,1,32>>, <<192,214,1,32>>, <<216,222,1,32>>, <<256,302,2,1>>, <<306,310,2,1>>,
      <<313,327,2,1>>, <<330,374,2,1>>, <<376,376,1,-121>>, <<377,381,2,1>>, <<385,385,1,210>>,
      <<386,388,2,1>>, <<390,390,1,206>>, <<391,391,1,1>>, <<393,394,1,205>>, <<395,395,1,1>>,
      <<398,398,1,79>>, <<399,399,1,202>>, <<400,400,1,203>>, <<401,401,1,1>>, <<403,403,1,205>>,
      <<404,404,1,207>>, <<406,406,1,211>>, <<407,407,1,209>>, <<408,408,1,1>>, <<412,412,1,211>>,
      <<413,413,1,213>>, <<415,415,1,214>>, <<416,420,2,1>>, <<422,422,1,218>>, <<423,423,1,1>>,
      <<425,425,1,218>>, <<428,428,1,1>>, <<430,430,1,218>>, <<431,431,1,1>>, <<433,434,1,217>>,
      <<435,437,2,1>>, <<439,439,1,219>>, <<440,440,1,1>>, <<444,444,1,1>>, <<452,452,1,2>>,
      <<453,453,1,1>>, <<455,455,1,2>>, <<456,456,1,1>>, <<458,458,1,2>>, <<459,475,2,1>>,
      <<478,494,2,1>>, <<497,497,1,2>>, <<498,500,2,1>>, <<502,502,1,-97>>, <<503,503,1,-56>>,
      <<504,542,2,1>>, <<544,544,1,-130>>, <<546,562,2,1>>, <<570,570,1,10795>>, <<571,571,1,1>>,
      <<573,573,1,-163>>, <<574,574,1,10792>>, <<577,577,1,1>>, <<579,579,1,-195>>, <<580,580,1,69>>,
      <<581,581,1,71>>, <<582,590,2,1>>, <<880,882,2,1>>, <<886,886,1,1>>, <<895,895,1,116>>,
      <<902,902,1,38>>, <<904,906,1,37>>, <<908,908,1,64>>, <<910,911,1,63>>, <<913,929,1,32>>,
      <<931,939,1,32>>, <<975,975,1,8>>, <<984,1006,2,1>>, <<1012,1012,1,-60>>, <<1015,1015,1,1>>,
      <<1017,1017,1,-7>>, <<1018,1018,1,1>>, <<1021,1023,1,-130>>, <<1024,1039,1,80>>, <<1040,1071,1,32>>,
      <<1120,1152,2,1>>, <<1162,1214,2,1>>, <<1216,1216,1,15>>, <<1217,1229,2,1>>, <<1232,1326,2,1>>,
      <<1329,1366,1,48>>, <<4256,4293,1,7264>>, <<4295,4295,1,7264>>, <<4301,4301,1,7264>>, <<5024,5103,1,38864>>,
      <<5104,5109,1,8>>, <<7312,7354,1,-3008>>, <<7357,7359,1,-3008>>, <<7680,7828,2,1>>, <<7838,7838,1,-7615>>,
      <<7840,7934,2,1>>, <<7944,7951,1,-8>>, <<7960,7965,1,-8>>, <<7976,7983,1,-8>>, <<7992,7999,1,-8>>,
      <<8008,8013,1,-8>>, <<8025,8031,2,-8>>, <<8040,8047,1,-8>>, <<8072,8079,1,-8>>, <<8088,8095,1,-8>>,
      <<8104,8111,1,-8>>, <<8120,8121,1,-8>>, <<8122,8123,1,-74>>, <<8124,8124,1,-9>>, <<8136,8139,1,-86>>,
      <<8140,8140,1,-9>>, <<8152,8153,1,-8>>, <<8154,8155,1,-100>>, <<8168,8169,1,-8>>, <<8170,8171,1,-112>>,
      <<8172,8172,1,-7>>, <<8184,8185,1,-128>>, <<8186,8187,1,-126>>, <<8188,8188,1,-9>>, <<8486,8486,1,-7517>>,
      <<8490,8490,1,-8383>>, <<8491,8491,1,-8262>>, <<8498,8498,1,28>>, <<8544,8559,1,16>>, <<8579,8579,1,1>>,
      <<9398,9423,1,26>>, <<11264,11311,1,48>>, <<11360,11360,1,1>>, <<11362,11362,1,-10743>>, <<11363,11363,1,-3814>>,
      <<11364,11364,1,-10727>>, <<11367,11371,2,1>>, <<11373,11373,1,-10780>>, <<11374,11374,1,-10749>>, <<11375,11375,1,-10783>>,
      <<11376,11376,1,-10782>>, <<11378,11378,1,1>>, <<11381,11381,1,1>>, <<11390,11391,1,-10815>>, <<11392,11490,2,1>>,
      <<11499,11501,2,1>>, <<11506,11506,1,1>>, <<42560,42604,2,1>>, <<42624,42650,2,1>>, <<42786,42798,2,1>>,
      <<42802,42862,2,1>>, <<42873,42875,2,1>>, <<42877,42877,1,-35332>>, <<42878,42886,2,1>>, <<42891,42891,1,1>>,
      <<42893,42893,1,-42280>>, <<42896,42898,2,1>>, <<42902,42920,2,1>>, <<42922,42922,1,-42308>>, <<42923,42923,1,-42319>>,
      <<42924,42924,1,-42315>>, <<42925,42925,1,-42305>>, <<42926,42926,1,-42308>>, <<42928,42928,1,-42258>>, <<42929,42929,1,-42282>>,
      <<42930,42930,1,-42261>>, <<42931,42931,1,928>>, <<42932,42946,2,1>>, <<42948,42948,1,-48>>, <<42949,42949,1,-42307>>,
      <<42950,42950,1,-35384>>, <<42951,42953,2,1>>, <<42960,42960,1,1>>, <<42966,42968,2,1>>, <<42997,42997,1,1>>,
      <<65313,65338,1,32>>, <<66560,66599,1,40>>, <<66736,66771,1,40>>, <<66928,66938,1,39>>, <<66940,66954,1,39>>,
      <<66956,66962,1,39>>, <<66964,66965,1,39>>, <<68736,68786,1,64>>, <<71840,71871,1,32>>, <<93760,93791,1,32>>,
      <<125184,125217,1,34>> }

\* the code points with the property Cased, as ranges <<first, last>>
CasedRanges ==
    {
      <<65,90>>, <<97,122>>, <<170,170>>, <<181,181>>, <<186,186>>, <<192,214>>,
      <<216,246>>, <<248,442>>, <<444,447>>, <<452,659>>, <<661,696>>, <<704,705>>,
      <<736,740>>, <<837,837>>, <<880,883>>, <<886,887>>, <<890,893>>, <<895,895>>,
      <<902,902>>, <<904,906>>, <<908,908>>, <<910,929>>, <<931,1013>>, <<1015,1153>>,
      <<1162,1327>>, <<1329,1366>>, <<1376,1416>>, <<4256,4293>>, <<4295,4295>>, <<4301,4301>>,
      <<4304,4346>>, <<4349,4351>>, <<5024,5109>>, <<5112,5117>>, <<7296,7304>>, <<7312,7354>>,
      <<7357,7359>>, <<7424,7615>>, <<7680,7957>>, <<7960,7965>>, <<7968,8005>>, <<8008,8013>>,
      <<8016,8023>>, <<8025,8025>>, <<8027,8027>>, <<8029,8029>>, <<8031,8061>>, <<8064,8116>>,
      <<8118,8124>>, <<8126,8126>>, <<8130,8132>>, <<8134,8140>>, <<8144,8147>>, <<8150,8155>>,
      <<8160,8172>>, <<8178,8180>>, <<8182,8188>>, <<8305,8305>>, <<8319,8319>>, <<8336,8348>>,
      <<8450,8450>>, <<8455,8455>>, <<8458,8467>>, <<8469,8469>>, <<8473,8477>>, <<8484,8484>>,
      <<8486,8486>>, <<8488,8488>>, <<8490,8493>>, <<8495,8500>>, <<8505,8505>>, <<8508,8511>>,
      <<8517,8521>>, <<8526,8526>>, <<8544,8575>>, <<8579,8580>>, <<9398,9449>>, <<11264,11492>>,
      <<11499,11502>>, <<11506,11507>>, <<11520,11557>>, <<11559,11559>>, <<11565,11565>>, <<42560,42605>>,
      <<42624,42653>>, <<42786,42887>>, <<42891,42894>>, <<42896,42954>>, <<42960,42961>>, <<42963,42963>>,
      <<42965,42969>>, <<42997,42998>>, <<43000,43002>>, <<43824,43866>>, <<43868,43880>>, <<43888,43967>>,
      <<64256,64262>>, <<64275,64279>>, <<65313,65338>>, <<65345,65370>>, <<66560,66639>>, <<66736,66771>>,
      <<66776,66811>>, <<66928,66938>>, <<66940,66954>>, <<66956,66962>>, <<66964,66965>>, <<66967,66977>>,
      <<66979,66993>>, <<66995,67001>>, <<67003,67004>>, <<67456,67456>>, <<67459,67461>>, <<67463,67504>>,
      <<67506,67514>>, <<68736,68786>>, <<68800,68850>>, <<71840,71903>>, <<93760,93823>>, <<119808,119892>>,
      <<119894,119964>>, <<119966,119967>>, <<119970,119970>>, <<119973,119974>>, <<119977,119980>>, <<119982,119993>>,
      <<119995,119995>>, <<119997,120003>>, <<120005,120069>>, <<120071,120074>>, <<120077,120084>>, <<120086,120092>>,
      <<120094,120121>>, <<120123,120126>>, <<120128,120132>>, <<120134,120134>>, <<120138,120144>>, <<120146,120485>>,
      <<120488,120512>>, <<120514,120538>>, <<120540,120570>>, <<120572,120596>>, <<120598,120628>>, <<120630,120654>>,
      <<120656,120686>>, <<120688,120712>>, <<120714,120744>>, <<120746,120770>>, <<120772,120779>>, <<122624,122633>>,
      <<122635,122654>>, <<125184,125251>>, <<127280,127305>>, <<127312,127337>>, <<127344,127369>> }

\* the code points with the property Case_Ignorable, as ranges <<first, last>>
CaseIgnorableRanges ==
    {
      <<39,39>>, <<46,46>>, <<58,58>>, <<94,94>>, <<96,96>>, <<168,168>>,
      <<173,173>>, <<175,175>>, <<180,180>>, <<183,184>>, <<688,879>>, <<884,885>>,
      <<890,890>>, <<900,901>>, <<903,903>>, <<1155,1161>>, <<1369,1369>>, <<1375,1375>>,
      <<1425,1469>>, <<1471,1471>>, <<1473,1474>>, <<1476,1477>>, <<1479,1479>>, <<1524,1524>>,
      <<1536,1541>>, <<1552,1562>>, <<1564,1564>>, <<1600,1600>>, <<1611,1631>>, <<1648,1648>>,
      <<1750,1757>>, <<1759,1768>>, <<1770,1773>>, <<1807,1807>>, <<1809,1809>>, <<1840,1866>>,
      <<1958,1968>>, <<2027,2037>>, <<2042,2042>>, <<2045,2045>>, <<2070,2093>>, <<2137,2139>>,
      <<2184,2184>>, <<2192,2193>>, <<2200,2207>>, <<2249,2306>>, <<2362,2362>>, <<2364,2364>>,
      <<2369,2376>>, <<2381,2381>>, <<2385,2391>>, <<2402,2403>>, <<2417,2417>>, <<2433,2433>>,
      <<2492,2492>>, <<2497,2500>>, <<2509,2509>>, <<2530,2531>>, <<2558,2558>>, <<2561,2562>>,
      <<2620,2620>>, <<2625,2626>>, <<2631,2632>>, <<2635,2637>>, <<2641,2641>>, <<2672,2673>>,
      <<2677,2677>>, <<2689,2690>>, <<2748,2748>>, <<2753,2757>>, <<2759,2760>>, <<2765,2765>>,
      <<2786,2787>>, <<2810,2815>>, <<2817,2817>>, <<2876,2876>>, <<2879,2879>>, <<2881,2884>>,
      <<2893,2893>>, <<2901,2902>>, <<2914,2915>>, <<2946,2946>>, <<3008,3008>>, <<3021,3021>>,
      <<3072,3072>>, <<3076,3076>>, <<3132,3132>>, <<3134,3136>>, <<3142,3144>>, <<3146,3149>>,
      <<3157,3158>>, <<3170,3171>>, <<3201,3201>>, <<3260,3260>>, <<3263,3263>>, <<3270,3270>>,
      <<3276,3277>>, <<3298,3299>>, <<3328,3329>>, <<3387,3388>>, <<3393,3396>>, <<3405,3405>>,
      <<3426,3427>>, <<3457,3457>>, <<3530,3530>>, <<3538,3540>>, <<3542,3542>>, <<3633,3633>>,
      <<3636,3642>>, <<3654,3662>>, <<3761,3761>>, <<3764,3772>>, <<3782,3782>>, <<3784,3789>>,
      <<3864,3865>>, <<3893,3893>>, <<3895,3895>>, <<3897,3897>>, <<3953,3966>>, <<3968,3972>>,
      <<3974,3975>>, <<3981,3991>>, <<3993,4028>>, <<4038,4038>>, <<4141,4144>>, <<4146,4151>>,
      <<4153,4154>>, <<4157,4158>>, <<4184,4185>>, <<4190,4192>>, <<4209,4212>>, <<4226,4226>>,
      <<4229,4230>>, <<4237,4237>>, <<4253,4253>>, <<4348,4348>>, <<4957,4959>>, <<5906,5908>>,
      <<5938,5939>>, <<5970,5971>>, <<6002,6003>>, <<6068,6069>>, <<6071,6077>>, <<6086,6086>>,
      <<6089,6099>>, <<6103,6103>>, <<6109,6109>>, <<6155,6159>>, <<6211,6211>>, <<6277,6278>>,
      <<6313,6313>>, <<6432,6434>>, <<6439,6440>>, <<6450,6450>>, <<6457,6459>>, <<6679,6680>>,
      <<6683,6683>>, <<6742,6742>>, <<6744,6750>>, <<6752,6752>>, <<6754,6754>>, <<6757,6764>>,
      <<6771,6780>>, <<6783,6783>>, <<6823,6823>>, <<6832,6862>>, <<6912,6915>>, <<6964,6964>>,
      <<6966,6970>>, <<6972,6972>>, <<6978,6978>>, <<7019,7027>>, <<7040,7041>>, <<7074,7077>>,
      <<7080,7081>>, <<7083,7085>>, <<7142,7142>>, <<7144,7145>>, <<7149,7149>>, <<7151,7153>>,
      <<7212,7219>>, <<7222,7223>>, <<7288,7293>>, <<7376,7378>>, <<7380,7392>>, <<7394,7400>>,
      <<7405,7405>>, <<7412,7412>>, <<7416,7417>>, <<7468,7530>>, <<7544,7544>>, <<7579,7679>>,
      <<8125,8125>>, <<8127,8129>>, <<8141,8143>>, <<8157,8159>>, <<8173,8175>>, <<8189,8190>>,
      <<8203,8207>>, <<8216,8217>>, <<8228,8228>>, <<8231,8231>>, <<8234,8238>>, <<8288,8292>>,
      <<8294,8303>>, <<8305,8305>>, <<8319,8319>>, <<8336,8348>>, <<8400,8432>>, <<11388,11389>>,
      <<11503,11505>>, <<11631,11631>>, <<11647,11647>>, <<11744,11775>>, <<11823,11823>>, <<12293,12293>>,
      <<12330,12333>>, <<12337,12341>>, <<12347,12347>>, <<12441,12446>>, <<12540,12542>>, <<40981,40981>>,
      <<42232,42237>>, <<42508,42508>>, <<42607,42610>>, <<42612,42621>>, <<42623,42623>>, <<42652,42655>>,
      <<42736,42737>>, <<42752,42785>>, <<42864,42864>>, <<42888,42890>>, <<42994,42996>>, <<43000,43001>>,
      <<43010,43010>>, <<43014,43014>>, <<43019,43019>>, <<43045,43046>>, <<43052,43052>>, <<43204,43205>>,
      <<43232,43249>>, <<43263,43263>>, <<43302,43309>>, <<43335,43345>>, <<43392,43394>>, <<43443,43443>>,
      <<43446,43449>>, <<43452,43453>>, <<43471,43471>>, <<43493,43494>>, <<43561,43566>>, <<43569,43570>>,
      <<43573,43574>>, <<43587,43587>>, <<43596,43596>>, <<43632,43632>>, <<43644,43644>>, <<43696,43696>>,
      <<43698,43700>>, <<43703,43704>>, <<43710,43711>>, <<43713,43713>>, <<43741,43741>>, <<43756,43757>>,
      <<43763,43764>>, <<43766,43766>>, <<43867,43871>>, <<43881,43883>>, <<44005,44005>>, <<44008,44008>>,
      <<44013,44013>>, <<64286,64286>>, <<64434,64450>>, <<65024,65039>>, <<65043,65043>>, <<65056,65071>>,
      <<65106,65106>>, <<65109,65109>>, <<65279,65279>>, <<65287,65287>>, <<65294,65294>>, <<65306,65306>>,
      <<65342,65342>>, <<65344,65344>>, <<65392,65392>>, <<65438,65439>>, <<65507,65507>>, <<65529,65531>>,
      <<66045,66045>>, <<66272,66272>>, <<66422,66426>>, <<67456,67461>>, <<67463,67504>>, <<67506,67514>>,
      <<68097,68099>>, <<68101,68102>>, <<68108,68111>>, <<68152,68154>>, <<68159,68159>>, <<68325,68326>>,
      <<68900,68903>>, <<69291,69292>>, <<69446,69456>>, <<69506,69509>>, <<69633,69633>>, <<69688,69702>>,
      <<69744,69744>>, <<69747,69748>>, <<69759,69761>>, <<69811,69814>>, <<69817,69818>>, <<69821,69821>>,
      <<69826,69826>>, <<69837,69837>>, <<69888,69890>>, <<69927,69931>>, <<69933,69940>>, <<70003,70003>>,
      <<70016,70017>>, <<70070,70078>>, <<70089,70092>>, <<70095,70095>>, <<70191,70193>>, <<70196,70196>>,
      <<70198,70199>>, <<70206,70206>>, <<70367,70367>>, <<70371,70378>>, <<70400,70401>>, <<70459,70460>>,
      <<70464,70464>>, <<70502,70508>>, <<70512,70516>>, <<70712,70719>>, <<70722,70724>>, <<70726,70726>>,
      <<70750,70750>>, <<70835,70840>>, <<70842,70842>>, <<70847,70848>>, <<70850,70851>>, <<71090,71093>>,
      <<71100,71101>>, <<71103,71104>>, <<71132,71133>>, <<71219,71226>>, <<71229,71229>>, <<71231,71232>>,
      <<71339,71339>>, <<71341,71341>>, <<71344,71349>>, <<71351,71351>>, <<71453,71455>>, <<71458,71461>>,
      <<71463,71467>>, <<71727,71735>>, <<71737,71738>>, <<71995,71996>>, <<71998,71998>>, <<72003,72003>>,
      <<72148,72151>>, <<72154,72155>>, <<72160,72160>>, <<72193,72202>>, <<72243,72248>>, <<72251,72254>>,
      <<72263,72263>>, <<72273,72278>>, <<72281,72283>>, <<72330,72342>>, <<72344,72345>>, <<72752,72758>>,
      <<72760,72765>>, <<72767,72767>>, <<72850,72871>>, <<72874,72880>>, <<72882,72883>>, <<72885,72886>>,
      <<73009,73014>>, <<73018,73018>>, <<73020,73021>>, <<73023,73029>>, <<73031,73031>>, <<73104,73105>>,
      <<73109,73109>>, <<73111,73111>>, <<73459,73460>>, <<78896,78904>>, <<92912,92916>>, <<92976,92982>>,
      <<92992,92995>>, <<94031,94031>>, <<94095,94111>>, <<94176,94177>>, <<94179,94180>>, <<110576,110579>>,
      <<110581,110587>>, <<110589,110590>>, <<113821,113822>>, <<113824,113827>>, <<118528,118573>>, <<118576,118598>>,
      <<119143,119145>>, <<119155,119170>>, <<119173,119179>>, <<119210,119213>>, <<119362,119364>>, <<121344,121398>>,
      <<121403,121452>>, <<121461,121461>>, <<121476,121476>>, <<121499,121503>>, <<121505,121519>>, <<122880,122886>>,
      <<122888,122904>>, <<122907,122913>>, <<122915,122916>>, <<122918,122922>>, <<123184,123197>>, <<123566,123566>>,
      <<123628,123631>>, <<125136,125142>>, <<125252,125259>>, <<127995,127999>>, <<917505,917505>>, <<917536,917631>>,
      <<917760,917999>> }

\* str.lower() on one character, without its context: U+0130 is the one
\* character whose lowercase has two characters, 'i' and U+0307
LowerChar(c) ==
    IF c = 304 THEN <<105, 775>>
    ELSE IF \E r \in LowerRanges : r[1] <= c /\ c <= r[2] /\ (c - r[1]) % r[3] = 0
    THEN LET r == CHOOSE r \in LowerRanges :
                      r[1] <= c /\ c <= r[2] /\ (c - r[1]) % r[3] = 0
         IN  <<c + r[4]>>
    ELSE <<c>>

\* The lowercase of the capital sigma (U+03A3) at position i of s: the final
\* sigma U+03C2 when a cased character precedes it, case-ignorable characters
\* skipped, and no cased character follows it, case-ignorable characters
\* skipped; the small sigma U+03C3 otherwise.
handle_capital_sigma(s, i) ==
    LET before == {j \in 1..(i - 1) : ~InRanges(s[j], CaseIgnorableRanges)}
        after == {j \in (i + 1)..Len(s) : ~InRanges(s[j], CaseIgnorableRanges)}
        last_before == CHOOSE j \in before : \A k \in before : k <= j
        first_after == CHOOSE j \in after : \A k \in after : j <= k
    IN  IF /\ before # {}
           /\ InRanges(s[last_before], CasedRanges)
           /\ (after = {} \/ ~InRanges(s[first_after], CasedRanges))
        THEN 962
        ELSE 963

\* str.lower()
str_lower(s) ==
    Flatten([i \in 1..Len(s) |->
        IF s[i] = 931 THEN <<handle_capital_sigma(s, i)>> ELSE LowerChar(s[i])])

\* Python's `sub in s` on strings
str_in(sub, s) ==
    \E i \in 0..(Len(s) - Len(sub)) : SubSeq(s, i + 1, i + Len(sub)) = sub

-----------------------------------------------------------------------------
(* RouteRetriever.detect_transportation_mode (chatTools.py:179-190) *)

kw_foot    == chars(<<"f","o","o","t">>)
kw_walk    == chars(<<"w","a","l","k">>)
kw_cycle   == chars(<<"c","y","c","l","e">>)
kw_public  == chars(<<"p","u","b","l","i","c">>)
kw_bus     == chars(<<"b","u","s">>)
kw_train   == chars(<<"t","r","a","i","n">>)
kw_transit == chars(<<"t","r","a","n","s","i","t">>)

\* the same function without the lower() of line 181
detect_transportation_mode_no_lower(transportation_mode) ==
    IF str_in(kw_foot, transportation_mode) \/ str_in(kw_walk, transportation_mode)
    THEN "Walking"
    ELSE IF str_in(kw_cycle, transportation_mode)
    THEN "bicycle"
    ELSE IF \/ str_in(kw_public, transportation_mode)
            \/ str_in(kw_bus, transportation_mode)
            \/ str_in(kw_train, transportation_mode)
            \/ str_in(kw_transit, transportation_mode)
    THEN "Transit"
    ELSE "Driving"

\* line 182, transportation_mode.strip(), discards its result: no effect
detect_transportation_mode(transportation_mode) ==
    LET m == str_lower(transportation_mode) IN
    IF str_in(kw_foot, m) \/ str_in(kw_walk, m)
    THEN "Walking"
    ELSE IF str_in(kw_cycle, m)
    THEN "bicycle"
    ELSE IF \/ str_in(kw_public, m)
            \/ str_in(kw_bus, m)
            \/ str_in(kw_train, m)
            \/ str_in(kw_transit, m)
    THEN "Transit"
    ELSE "Driving"

\* fragments from which transport-mode texts are composed; keywords can also
\* arise across two fragments ("tr" + "ain", "b" + "us"); the last fragment
\* is 'É', a capital outside ASCII
ModeTokens ==
    { kw_foot, chars(<<"W","A","L","K">>), chars(<<"w","a","l","k","i","n","g">>),
      chars(<<"C","y","c","l","e">>), chars(<<"b","i","c","y","c","l","e">>),
      kw_public, chars(<<"B","u","s">>), chars(<<"t","r">>), chars(<<"a","i","n">>),
      chars(<<"T","r","a","n","s","i","t">>), chars(<<"c","a","r">>),
      chars(<<"d","r","i","v","e">>), chars(<<" ">>), chars(<<"b","y"," ">>),
      chars(<<"b">>), chars(<<"u","s">>), <<201>> }

ModeInputs == { Flatten(ts) : ts \in SeqsUpTo(ModeTokens, MaxModeTokens) }

-----------------------------------------------------------------------------
(* Python values.  A value that may be None, a str, a list or a dict is a  *)
(* record tagged by its type, with a differently named payload per type.   *)

PyNone == [t |-> "None"]
PyStr(s) == [t |-> "str", s |-> s]
PyList(l) == [t |-> "list", l |-> l]
PyDict(d) == [t |-> "dict", d |-> d]

\* '\n'.join(xs), ' '.join(xs) on a list of strings
RECURSIVE str_join(_, _)
str_join(sep, xs) ==
    IF xs = <<>> THEN ""
    ELSE IF Len(xs) = 1 THEN xs[1]
    ELSE xs[1] \o sep \o str_join(sep, Tail(xs))

-----------------------------------------------------------------------------
(* get_route: the routing request (chatTools.py:193-206) *)

DIGITS == chars(<<"0","1","2","3","4","5","6","7","8","9">>)

\* str(i) of the f-string f"wp.{i}="
RECURSIVE int_str(_)
int_str(i) ==
    IF i < 10 THEN <<DIGITS[i + 1]>>
    ELSE int_str(i \div 10) \o <<DIGITS[(i % 10) + 1]>>

\* the characters urllib.parse.quote never encodes
ALWAYS_SAFE ==
    {UPPER[i] : i \in DOMAIN UPPER} \cup {LOWER[i] : i \in DOMAIN LOWER}
        \cup {DIGITS[i] : i \in DOMAIN DIGITS}
        \cup {ord("_"), ord("."), ord("-"), ord("~")}

\* str.encode('utf-8') on one character other than a surrogate
utf8_encode(c) ==
    IF c < 128 THEN <<c>>
    ELSE IF c < 2048 THEN <<192 + (c \div 64), 128 + (c % 64)>>
    ELSE IF c < 65536
    THEN <<224 + (c \div 4096), 128 + ((c \div 64) % 64), 128 + (c % 64)>>
    ELSE <<240 + (c \div 262144), 128 + ((c \div 4096) % 64),
           128 + ((c \div 64) % 64), 128 + (c % 64)>>

\* the surrogates, which str.encode('utf-8') rejects with UnicodeEncodeError
SURROGATES == 55296..57343

HEX == chars(<<"0","1","2","3","4","5","6","7","8","9","A","B","C","D","E","F">>)

\* '%XX' of a byte
PercentCode(b) == <<ord("%"), HEX[(b \div 16) + 1], HEX[(b % 16) + 1]>>

\* the location put into the URL as it is, not encoded
quote_none(loc) == loc

\* urllib.parse.quote(loc, safe=''): every byte of the UTF-8 encoding that
\* is not always safe becomes '%XX'
quote(loc) ==
    LET bytes == Flatten([i \in 1..Len(loc) |-> utf8_encode(loc[i])])
    IN  Flatten([i \in 1..Len(bytes) |->
            IF bytes[i] \in ALWAYS_SAFE THEN <<bytes[i]>> ELSE PercentCode(bytes[i])])

\* ROUTE_URL up to its '{}' placeholder, and after it
ROUTE_URL_HEAD == chars(<<"h","t","t","p",":","/","/","d","e","v",".","v","i","r","t","u","a","l","e","a","r","t","h",".","n","e","t","/","R","E","S","T","/","V","1","/","R","o","u","t","e","s","/">>)
ROUTE_URL_TAIL == chars(<<"?">>)

\* the characters of the four values detect_transportation_mode returns
ModeChars(mode) ==
    CASE mode = "Walking" -> chars(<<"W","a","l","k","i","n","g">>)
      [] mode = "bicycle" -> chars(<<"b","i","c","y","c","l","e">>)
      [] mode = "Transit" -> chars(<<"T","r","a","n","s","i","t">>)
      [] mode = "Driving" -> chars(<<"D","r","i","v","i","n","g">>)

wp_eq(i) == chars(<<"w","p",".">>) \o int_str(i) \o chars(<<"=">>)

\* lines 199-204: the loop over enumerate(locations), from index i on
RECURSIVE waypoints(_, _, _)
waypoints(route_url, locations, i) ==
    IF i >= Len(locations) THEN route_url
    ELSE LET encoded_location == quote(locations[i + 1]) IN
         waypoints(IF i = 0
                   THEN route_url \o wp_eq(i) \o encoded_location
                   ELSE route_url \o chars(<<"&">>) \o wp_eq(i) \o encoded_location,
                   locations, i + 1)

\* lines 197-206: the URL that get_route requests
route_request_url(locations, mode, bing_maps_key) ==
    waypoints(ROUTE_URL_HEAD \o ModeChars(mode) \o ROUTE_URL_TAIL, locations, 0)
        \o chars(<<"&","k","e","y","=">>) \o bing_maps_key

-----------------------------------------------------------------------------
(* get_route: the response (chatTools.py:208-225) and RouteRetriever._run  *)

\* The routing provider's answer to one request:
\*   [kind |-> "urlopen_error"]   urlopen raises (network failure, HTTP error)
\*   [kind |-> "bad_body"]        the body is not JSON or lacks the itinerary path
\*   [kind |-> "body", itineraryItems |-> items]
\* An item is [instruction |-> [text |-> s], maneuverPoint |-> [coordinates |-> c]];
\* a malformed item lacks one of the two keys.

Raise(exc, url, requests) ==
    [raised |-> TRUE, exc |-> exc, value |-> PyNone, url |-> url, requests |-> requests]

Return(value, url, requests) ==
    [raised |-> FALSE, exc |-> "None", value |-> value, url |-> url, requests |-> requests]

\* the loop with the coordinates appended only from the second item on
RECURSIVE route_loop_skip_first(_, _, _)
route_loop_skip_first(items, directions, geocode_points) ==
    IF items = <<>> THEN [ok |-> TRUE, directions |-> directions, geocode_points |-> geocode_points]
    ELSE LET item == Head(items) IN
         IF ~({"instruction", "maneuverPoint"} \subseteq DOMAIN item)
         THEN [ok |-> FALSE]
         ELSE route_loop_skip_first(Tail(items),
                         Append(directions, "- " \o item.instruction.text),
                         IF directions = <<>> THEN geocode_points
                         ELSE Append(geocode_points, item.maneuverPoint.coordinates))

\* lines 219-221: for item in itinerary_items; a missing key raises KeyError
RECURSIVE route_loop(_, _, _)
route_loop(items, directions, geocode_points) ==
    IF items = <<>> THEN [ok |-> TRUE, directions |-> directions, geocode_points |-> geocode_points]
    ELSE LET item == Head(items) IN
         IF ~({"instruction", "maneuverPoint"} \subseteq DOMAIN item)
         THEN [ok |-> FALSE]
         ELSE route_loop(Tail(items),
                         Append(directions, "- " \o item.instruction.text),
                         Append(geocode_points, item.maneuverPoint.coordinates))

\* get_route(locations, mode) with os.getenv('BING_API_KEY') = bing_maps_key
\* and the provider answering net.  quote of line 200 stands outside the try
\* of line 208: a location holding a surrogate ends the call with the
\* UnicodeEncodeError of its encoding.
get_route(locations, mode, bing_maps_key, net) ==
    IF bing_maps_key.t = "None" \/ bing_maps_key.s = <<>>
    THEN Raise("ValueError", PyNone, 0)
    ELSE IF \E i \in 1..Len(locations) :
                \E j \in 1..Len(locations[i]) : locations[i][j] \in SURROGATES
    THEN Raise("UnicodeEncodeError", PyNone, 0)
    ELSE LET route_url == route_request_url(locations, mode, bing_maps_key.s) IN
         IF net.kind # "body"
         THEN Raise("ConnectionError", PyStr(route_url), 1)
         ELSE LET r == route_loop(net.itineraryItems, <<>>, <<>>) IN
              IF ~r.ok
              THEN Raise("ConnectionError", PyStr(route_url), 1)
              ELSE Return(PyDict([output |-> PyStr(str_join("\n", r.directions)),
                                  geocode_points |-> PyList(r.geocode_points)]),
                          PyStr(route_url), 1)

\* The tool input is a Python value.  Of a str the model holds what
\* ast.literal_eval makes of it: the value it returns, or the exception it
\* raises (SyntaxError for text that is no Python expression, ValueError for
\* an expression that is no literal):
\*   [t |-> "dict", d |-> d]
\*   [t |-> "str", literal_eval |-> [ok |-> TRUE, value |-> v]]
\*   [t |-> "str", literal_eval |-> [ok |-> FALSE, exc |-> e]]
\* d has the keys 'locations' and 'transportation_mode', or fewer.

kw_car == chars(<<"c","a","r">>)

\* dict.get(key, default)
dict_get(d, key, default) == IF key \in DOMAIN d THEN d[key] ELSE default

\* RouteRetriever._run (chatTools.py:168-174): the exception of literal_eval
\* leaves line 170 as it is; .get of line 171 raises AttributeError on a
\* value that is no dict
RouteRetriever_run(input_data, bing_maps_key, net) ==
    IF input_data.t = "str" /\ ~input_data.literal_eval.ok
    THEN Raise(input_data.literal_eval.exc, PyNone, 0)
    ELSE LET value == IF input_data.t = "str" THEN input_data.literal_eval.value
                      ELSE input_data
         IN  IF value.t # "dict"
             THEN Raise("AttributeError", PyNone, 0)
             ELSE LET mode == detect_transportation_mode(
                                  dict_get(value.d, "transportation_mode", kw_car))
                      locations == dict_get(value.d, "locations", << <<>> >>)
                  IN  get_route(locations, mode, bing_maps_key, net)

-----------------------------------------------------------------------------
(* get_location_data (chatTools.py:99-122) *)

location_eq == chars(<<"l","o","c","a","t","i","o","n","=">>)

\* the characters str.strip() removes, those for which str.isspace() holds:
\* '\t' '\n' '\v' '\f' '\r', U+001C..U+001F, ' ', U+0085, U+00A0, U+1680,
\* U+2000..U+200A, U+2028, U+2029, U+202F, U+205F, U+3000
WHITESPACE ==
    (9..13) \cup (28..32) \cup {133, 160, 5760} \cup (8192..8202)
        \cup {8232, 8233, 8239, 8287, 12288}

\* str.startswith
str_startswith(s, prefix) ==
    Len(s) >= Len(prefix) /\ SubSeq(s, 1, Len(prefix)) = prefix

\* str.strip()
RECURSIVE str_strip(_)
str_strip(s) ==
    IF s = <<>> THEN s
    ELSE IF s[1] \in WHITESPACE THEN str_strip(Tail(s))
    ELSE IF s[Len(s)] \in WHITESPACE THEN str_strip(SubSeq(s, 1, Len(s) - 1))
    ELSE s

\* lines 108-110: the query handed to the geocoder
geocode_query(location) ==
    IF str_startswith(location, location_eq)
    THEN str_strip(SubSeq(location, Len(location_eq) + 1, Len(location)))
    ELSE location

\* RateLimiter(..., min_delay_seconds=1) of line 112
min_delay_seconds == 1

\* geopy's RateLimiter: when a call arriving at `clock` is dispatched, given
\* the time of the limiter's previous call (None on a new limiter)
RateLimiter_dispatch(last_call, clock) ==
    IF last_call.t = "None" THEN clock
    ELSE IF clock - last_call.v >= min_delay_seconds THEN clock
    ELSE last_call.v + min_delay_seconds

\* The geocoding provider's answer:
\*   [kind |-> "found", latitude |-> a, longitude |-> b]
\*   [kind |-> "none"]     no match
\*   [kind |-> "error"]    the call fails
\* get_location_data(location), called at time `clock`.  Lines 111-112 build a
\* new geolocator and a new RateLimiter in every call, so the limiter that
\* serves line 115 has no previous call.  A failing provider call ends in an
\* exception raised at line 119 or re-raised at line 122 (the retries that
\* geopy's RateLimiter makes inside one call are not modelled).
get_location_data(location, clock, geo) ==
    LET query == geocode_query(location)
        geocoding_rate_limiter == PyNone
        at == RateLimiter_dispatch(geocoding_rate_limiter, clock)
    IN  [raised |-> geo.kind # "found",
         exc |-> IF geo.kind = "found" THEN "None" ELSE "Exception",
         value |-> IF geo.kind = "found"
                   THEN [latitude |-> geo.latitude, longitude |-> geo.longitude]
                   ELSE PyNone,
         query |-> query,
         dispatched_at |-> at,
         requests |-> 1]

-----------------------------------------------------------------------------
(* The places tool (chatTools.py:40-52, 63-96, 125-152) *)

RADIUS == 100000

\* The tips provider's answer for one place:
\*   [kind |-> "error"]                        requests.get raises
\*   [kind |-> "response", status_code |-> n, tips |-> <<[text |-> s], ...>>]
\* get_fsq_info_of_location(name, fsq_id): every exception is caught at
\* line 151 and the function then returns None
get_fsq_info_of_location(name, fsq_id, fsq_api_key, tip) ==
    IF fsq_api_key.t = "None"
    THEN [value |-> PyNone, requests |-> 0]
    ELSE IF tip.kind = "error" \/ tip.status_code # 200
    THEN [value |-> PyNone, requests |-> 1]
    ELSE [value |-> PyStr(name \o ": "
                          \o str_join(" ", [i \in 1..Len(tip.tips) |-> tip.tips[i].text])),
          requests |-> 1]

\* sum of the requests of a sequence of results
RECURSIVE SumRequests(_)
SumRequests(rs) == IF rs = <<>> THEN 0 ELSE Head(rs).requests + SumRequests(Tail(rs))

\* The search provider's answer:
\*   [kind |-> "error"]
\*   [kind |-> "response", status_code |-> n, results |-> <<[name |-> s, fsq_id |-> id], ...>>]
\* tips maps an fsq_id to the tips provider's answer for it.
\* get_places_of_interests(latitude, longitude, radius): str.join first
\* collects every item of the generator (one tips call per place) and then
\* raises TypeError on an item that is None; every exception is caught at
\* line 95 and the function then returns None
get_places_of_interests(latitude, longitude, radius, fsq_api_key, search, tips) ==
    IF fsq_api_key.t = "None"
    THEN [value |-> PyNone, requests |-> 0]
    ELSE IF search.kind = "error" \/ search.status_code # 200
    THEN [value |-> PyNone, requests |-> 1]
    ELSE LET places == search.results
             infos == [i \in 1..Len(places) |->
                          get_fsq_info_of_location(places[i].name, places[i].fsq_id,
                                                   fsq_api_key, tips[places[i].fsq_id])]
         IN  IF \E i \in 1..Len(infos) : infos[i].value.t = "None"
             THEN [value |-> PyNone, requests |-> 1 + SumRequests(infos)]
             ELSE [value |-> PyStr(str_join("\n", [i \in 1..Len(infos) |-> infos[i].value.s])),
                   requests |-> 1 + SumRequests(infos)]

\* PlacesOfInterestTool._run(location), called at time `clock`; the geocode
\* provider call of line 49 is dispatched at dispatched_at
PlacesOfInterestTool_run(location, clock, geo, fsq_api_key, search, tips) ==
    LET location_data == get_location_data(location, clock, geo) IN
    IF location_data.raised
    THEN [raised |-> TRUE, exc |-> location_data.exc, value |-> PyNone,
          requests |-> location_data.requests,
          dispatched_at |-> location_data.dispatched_at]
    ELSE LET places_of_interest ==
                 get_places_of_interests(location_data.value.latitude,
                                         location_data.value.longitude, RADIUS,
                                         fsq_api_key, search, tips)
         IN  [raised |-> FALSE, exc |-> "None",
              value |-> PyDict([output |-> places_of_interest.value]),
              requests |-> location_data.requests + places_of_interest.requests,
              dispatched_at |-> location_data.dispatched_at]

-----------------------------------------------------------------------------
(* SimpleCallback.on_tool_end (chatCallback.py:157-173) *)

\* A message of the log is [role |-> r, content |-> c], or a coordinate
\* record [geocode_points |-> v], v the Python value copied at line 169,
\* that later gains the field figure_key.

\* the Python values that have a method copy(): of the values of the model
\* a list and a dict have one, a str has none
has_copy(v) == v.t \in {"list", "dict"}

\* the callback without line 171
on_tool_end_keep_points(output, st_messages) ==
    IF output.t = "dict" /\ "geocode_points" \in DOMAIN output.d
           /\ output.d.geocode_points.t # "None"
    THEN IF ~has_copy(output.d.geocode_points)
         THEN [raised |-> TRUE, messages |-> st_messages, output |-> output,
               returned |-> PyNone]
         ELSE [raised |-> FALSE,
               messages |-> Append(st_messages,
                                   [geocode_points |-> output.d.geocode_points]),
               output |-> output,
               returned |-> output]
    ELSE [raised |-> FALSE, messages |-> st_messages, output |-> output,
          returned |-> PyNone]

\* the callback storing the record over the last message instead of
\* appending it
on_tool_end_overwrite_last(output, st_messages) ==
    IF output.t = "dict" /\ "geocode_points" \in DOMAIN output.d
           /\ output.d.geocode_points.t # "None" /\ has_copy(output.d.geocode_points)
    THEN LET blanked == PyDict([output.d EXCEPT !.geocode_points = PyStr("")])
         IN  [raised |-> FALSE,
              messages |-> [st_messages EXCEPT ![Len(st_messages)] =
                               [geocode_points |-> output.d.geocode_points]],
              output |-> blanked,
              returned |-> blanked]
    ELSE [raised |-> FALSE, messages |-> st_messages, output |-> output,
          returned |-> PyNone]

\* on_tool_end(output) with self.st_state.messages = st_messages.  The result
\* holds the log after the call, the output object after the call (line 171
\* changes it in place: it is what the agent goes on with) and the value
\* returned.  Line 168 tests `is not None`; .copy() of line 169 exists on a
\* list and on a dict and raises AttributeError on a str; the base class's
\* on_tool_end of line 173 does nothing and returns None.
on_tool_end(output, st_messages) ==
    IF output.t = "dict" /\ "geocode_points" \in DOMAIN output.d
           /\ output.d.geocode_points.t # "None"
    THEN IF ~has_copy(output.d.geocode_points)
         THEN [raised |-> TRUE, messages |-> st_messages, output |-> output,
               returned |-> PyNone]
         ELSE LET blanked == PyDict([output.d EXCEPT !.geocode_points = PyStr("")])
              IN  [raised |-> FALSE,
                   messages |-> Append(st_messages,
                                       [geocode_points |-> output.d.geocode_points]),
                   output |-> blanked,
                   returned |-> blanked]
    ELSE [raised |-> FALSE, messages |-> st_messages, output |-> output,
          returned |-> PyNone]

-----------------------------------------------------------------------------
(* The initial state of the session (main.py:25-28) *)

first_message == [role |-> "assistant", content |-> "Ask me anything about anywhere!"]

\* no exception ended the script run
no_error == [exc |-> "None", origin |-> "none"]

InitUI ==
    /\ messages = << first_message >>
    /\ pc = "idle"
    /\ prompt = "None"
    /\ uuid_count = 0
    /\ tool_calls = 0
    /\ turns = 0
    /\ now = 0
    /\ dispatched = <<>>
    /\ last_tool = [kind |-> "none"]
    /\ ui_error = no_error

-----------------------------------------------------------------------------
(* Specification of detect_transportation_mode on its own *)

InitMode ==
    /\ InitUI
    /\ fn_in \in { [fn |-> "detect_transportation_mode", arg |-> s] : s \in ModeInputs }
    /\ fn_out = [done |-> FALSE]

RunMode ==
    /\ fn_out.done = FALSE
    /\ fn_out' = [done |-> TRUE, value |-> detect_transportation_mode(fn_in.arg)]
    /\ UNCHANGED <<fn_in, ui_vars>>

SpecMode == InitMode /\ [][RunMode]_vars

\* case-insensitive keyword containment, stated without lower()
SameLetter(a, b) ==
    a = b \/ \E i \in DOMAIN UPPER : {a, b} = {UPPER[i], LOWER[i]}

HasKeyword(s, kw) ==
    \E i \in 1..Len(s) :
        /\ i + Len(kw) - 1 <= Len(s)
        /\ \A j \in 1..Len(kw) : SameLetter(s[i + j - 1], kw[j])

ExpectedMode(s) ==
    IF HasKeyword(s, kw_foot) \/ HasKeyword(s, kw_walk) THEN "Walking"
    ELSE IF HasKeyword(s, kw_cycle) THEN "bicycle"
    ELSE IF \/ HasKeyword(s, kw_public) \/ HasKeyword(s, kw_bus)
            \/ HasKeyword(s, kw_train) \/ HasKeyword(s, kw_transit) THEN "Transit"
    ELSE "Driving"

\* C7: detect_transportation_mode returns 'Walking' when the text contains
\* 'foot' or 'walk' in any letter case, otherwise 'bicycle' when it contains
\* 'cycle', otherwise 'Transit' when it contains 'public', 'bus', 'train' or
\* 'transit', otherwise 'Driving' (also for the empty text).
C7_ModePriority ==
    fn_out.done => fn_out.value = ExpectedMode(fn_in.arg)

\* C7 witness: an upper-case text holding both a walking and a cycling
\* keyword has been classified as Walking.
C7_Witness ==
    /\ fn_out.done
    /\ fn_in.arg = chars(<<"W","A","L","K","C","y","c","l","e">>)
    /\ fn_out.value = "Walking"

-----------------------------------------------------------------------------
(* Specification of the route tool on its own *)

loc_Mumbai == chars(<<"M","u","m","b","a","i">>)
loc_Pune   == chars(<<"P","u","n","e">>)

\* 'Zürich' has a character of two UTF-8 bytes, the last location is one
\* character of four (U+1F600)
RouteLocations ==
    { loc_Mumbai, loc_Pune, chars(<<"N","e","w"," ","Y","o","r","k">>),
      chars(<<"A","&","B">>), chars(<<"a","=","b","/","c">>), chars(<<"5","0","%">>),
      chars(<<"Z">>) \o <<252>> \o chars(<<"r","i","c","h">>), <<128512>>, <<>> }

RouteModes == { kw_cycle, chars(<<"W","A","L","K">>), chars(<<"B","u","s">>) }

bing_key == PyStr(chars(<<"K","1">>))

ItineraryItems ==
    { [instruction |-> [text |-> "Head north"], maneuverPoint |-> [coordinates |-> <<18, 73>>]],
      [instruction |-> [text |-> "Turn left"],  maneuverPoint |-> [coordinates |-> <<19, 72>>]],
      [instruction |-> [text |-> ""],           maneuverPoint |-> [coordinates |-> <<18, 73>>]],
      [instruction |-> [text |-> "Arrive"]] }

net_one_step ==
    [kind |-> "body",
     itineraryItems |-> << [instruction |-> [text |-> "Head north"],
                            maneuverPoint |-> [coordinates |-> <<18, 73>>]] >>]

\* a str input and what ast.literal_eval makes of it
Parsed(value) == [t |-> "str", literal_eval |-> [ok |-> TRUE, value |-> value]]
Rejected(exc) == [t |-> "str", literal_eval |-> [ok |-> FALSE, exc |-> exc]]

\* the tool inputs that carry the dict d
InputForms(d) == { PyDict(d), Parsed(PyDict(d)) }

RouteInputs ==
    \* every list of locations and every mode, the provider answering
    { [input_data |-> f, bing_maps_key |-> bing_key, net |-> net_one_step] :
        f \in UNION { InputForms([locations |-> ls, transportation_mode |-> m])
                          \cup InputForms([locations |-> ls]) :
                      ls \in SeqsUpTo(RouteLocations, MaxLocations), m \in RouteModes } }
    \cup
    \* every answer of the provider, for one request
    { [input_data |-> PyDict([locations |-> <<loc_Mumbai, loc_Pune>>,
                              transportation_mode |-> kw_cycle]),
       bing_maps_key |-> bing_key, net |-> n] :
        n \in {[kind |-> "urlopen_error"], [kind |-> "bad_body"]}
              \cup {[kind |-> "body", itineraryItems |-> its] :
                        its \in SeqsUpTo(ItineraryItems, MaxItems)} }
    \cup
    \* a missing or empty credential, a malformed input, a dict without keys,
    \* a location with a lone surrogate
    { [input_data |-> f, bing_maps_key |-> k, net |-> net_one_step] :
        f \in { PyDict([locations |-> <<loc_Mumbai>>]),
                PyDict([transportation_mode |-> kw_cycle]),
                PyDict([locations |-> <<loc_Pune, <<55357>> >>]),
                Rejected("SyntaxError"), Rejected("ValueError"),
                Parsed(PyList(<<loc_Mumbai, loc_Pune>>)), Parsed(PyNone) },
        k \in { PyNone, PyStr(<<>>), bing_key } }

InitRoute ==
    /\ InitUI
    /\ fn_in \in RouteInputs
    /\ fn_out = [done |-> FALSE]

RunRoute ==
    /\ fn_out.done = FALSE
    /\ fn_out' = [done |-> TRUE,
                  result |-> RouteRetriever_run(fn_in.input_data, fn_in.bing_maps_key, fn_in.net)]
    /\ UNCHANGED <<fn_in, ui_vars>>

SpecRoute == InitRoute /\ [][RunRoute]_vars

\* the dict the tool input carries (only taken of a well-formed input)
InputDict(input_data) ==
    IF input_data.t = "str" THEN input_data.literal_eval.value.d ELSE input_data.d

\* C8: a successful route call returns as many instruction lines as
\* coordinate pairs, one per itinerary item, the i-th line and the i-th pair
\* both taken from the i-th item.
C8_Aligned ==
    (fn_out.done /\ ~fn_out.result.raised) =>
        LET items == fn_in.net.itineraryItems
            env == fn_out.result.value.d
            lines == [i \in 1..Len(items) |-> "- " \o items[i].instruction.text]
        IN  /\ env.geocode_points.t = "list"
            /\ Len(env.geocode_points.l) = Len(items)
            /\ \A i \in 1..Len(items) :
                   env.geocode_points.l[i] = items[i].maneuverPoint.coordinates
            /\ env.output = PyStr(str_join("\n", lines))

\* C8 witness: a route of two different steps has been returned.
C8_Witness ==
    /\ fn_out.done
    /\ ~fn_out.result.raised
    /\ fn_out.result.value.d.output = PyStr("- Head north\n- Turn left")
    /\ fn_out.result.value.d.geocode_points.l = << <<18, 73>>, <<19, 72>> >>

\* reading a URL back

RECURSIVE SplitOn(_, _)
SplitOn(s, c) ==
    IF \A i \in 1..Len(s) : s[i] # c THEN <<s>>
    ELSE LET k == CHOOSE i \in 1..Len(s) : s[i] = c /\ \A j \in 1..(i - 1) : s[j] # c
         IN  <<SubSeq(s, 1, k - 1)>> \o SplitOn(SubSeq(s, k + 1, Len(s)), c)

Bytes == 0..255

\* the bytes a percent-encoded text stands for
RECURSIVE Unquote(_)
Unquote(s) ==
    IF s = <<>> THEN <<>>
    ELSE IF s[1] = ord("%") /\ Len(s) >= 3
              /\ \E b \in Bytes : PercentCode(b) = SubSeq(s, 1, 3)
    THEN <<CHOOSE b \in Bytes : PercentCode(b) = SubSeq(s, 1, 3)>>
             \o Unquote(SubSeq(s, 4, Len(s)))
    ELSE <<s[1]>> \o Unquote(Tail(s))

\* the UTF-8 bytes of a text
Utf8(s) == Flatten([i \in 1..Len(s) |-> utf8_encode(s[i])])

\* the query parameters of a query string, as <<name, raw value>> pairs
QueryParams(query) ==
    LET parts == SelectSeq(SplitOn(query, ord("&")), LAMBDA p : p # <<>>)
    IN  [i \in 1..Len(parts) |->
            LET nv == SplitOn(parts[i], ord("="))
            IN  <<nv[1], SubSeq(parts[i], Len(nv[1]) + 2, Len(parts[i]))>>]

\* C9: the routing request has the normalized mode as its path segment and
\* one parameter per location, wp.0, wp.1, ... in input order, the i-th
\* carrying the URL-encoded i-th location (the percent-encoding of its UTF-8
\* bytes), followed by the key parameter.
C9_RouteUrl ==
    (fn_out.done /\ fn_out.result.url.t = "str") =>
        LET d == InputDict(fn_in.input_data)
            locations == dict_get(d, "locations", << <<>> >>)
            mode == ExpectedMode(dict_get(d, "transportation_mode", kw_car))
            url == fn_out.result.url.s
            head == Len(ROUTE_URL_HEAD)
            pq == SplitOn(SubSeq(url, head + 1, Len(url)), ord("?"))
            params == QueryParams(SubSeq(url, head + Len(pq[1]) + 2, Len(url)))
        IN  /\ SubSeq(url, 1, head) = ROUTE_URL_HEAD
            /\ Len(pq) = 2
            /\ pq[1] = ModeChars(mode)
            /\ Len(params) = Len(locations) + 1
            /\ \A i \in 1..Len(locations) :
                   /\ params[i][1] = chars(<<"w","p",".">>) \o <<DIGITS[i]>>
                   /\ \A j \in 1..Len(params[i][2]) :
                          params[i][2][j] \in ALWAYS_SAFE \cup {ord("%")}
                   /\ Unquote(params[i][2]) = Utf8(locations[i])
            /\ params[Len(params)] = << chars(<<"k","e","y">>), fn_in.bing_maps_key.s >>

\* C9 witness: the request for Mumbai to Pune by cycle has been built.
C9_Witness ==
    /\ fn_out.done
    /\ fn_in.input_data = PyDict([locations |-> <<loc_Mumbai, loc_Pune>>,
                                  transportation_mode |-> kw_cycle])
    /\ fn_out.result.url = PyStr(chars(<<"h","t","t","p",":","/","/","d","e","v",".","v","i","r","t","u","a","l","e","a","r","t","h",".","n","e","t","/","R","E","S","T","/","V","1","/","R","o","u","t","e","s","/","b","i","c","y","c","l","e","?","w","p",".","0","=","M","u","m","b","a","i","&","w","p",".","1","=","P","u","n","e","&","k","e","y","=","K","1">>))

-----------------------------------------------------------------------------
(* Specification of the places tool on its own *)

Places ==
    { [name |-> "Gateway", fsq_id |-> "f1"],
      [name |-> "Fort",    fsq_id |-> "f2"],
      [name |-> "Cafe",    fsq_id |-> "f3"] }

FsqIds == { p.fsq_id : p \in Places }

TipAnswers ==
    { [kind |-> "error"],
      [kind |-> "response", status_code |-> 500, tips |-> <<>>],
      [kind |-> "response", status_code |-> 200, tips |-> << [text |-> "Nice view"] >>],
      [kind |-> "response", status_code |-> 200,
       tips |-> << [text |-> "Go early"], [text |-> "Crowded"] >>] }

SearchAnswers ==
    { [kind |-> "error"], [kind |-> "response", status_code |-> 401, results |-> <<>>] }
    \cup { [kind |-> "response", status_code |-> 200, results |-> ps] :
               ps \in SeqsUpTo(Places, MaxPlaces) }

GeoAnswers ==
    { [kind |-> "found", latitude |-> 18, longitude |-> 73],
      [kind |-> "none"], [kind |-> "error"] }

fsq_key == PyStr("fsq-key")

InitPlaces ==
    /\ InitUI
    /\ fn_in \in [location : {loc_Pune}, geo : GeoAnswers, fsq_api_key : {PyNone, fsq_key},
                  search : SearchAnswers, tips : [FsqIds -> TipAnswers]]
    /\ fn_out = [done |-> FALSE]

RunPlaces ==
    /\ fn_out.done = FALSE
    /\ LET r == PlacesOfInterestTool_run(fn_in.location, now, fn_in.geo,
                                         fn_in.fsq_api_key, fn_in.search, fn_in.tips)
       IN  /\ fn_out' = [done |-> TRUE, result |-> r]
           /\ dispatched' = Append(dispatched, r.dispatched_at)
           /\ now' = r.dispatched_at
    /\ UNCHANGED <<fn_in, messages, pc, prompt, uuid_count, tool_calls, turns,
                   last_tool, ui_error>>

SpecPlaces == InitPlaces /\ [][RunPlaces]_vars

\* C5: with FSQ_API_KEY unset (and a location that resolves) the places tool fails with the missing-credential
\* error (the ValueError of line 77) instead of returning an envelope, and
\* makes no network call.
C5_MissingCredential ==
    (fn_out.done /\ fn_in.fsq_api_key = PyNone /\ fn_in.geo.kind = "found") =>
        /\ fn_out.result.raised
        /\ fn_out.result.exc = "ValueError"
        /\ fn_out.result.requests = 0

TipFails(tip) == tip.kind = "error" \/ tip.status_code # 200

\* C6: when the tips call of exactly one returned place fails and the search
\* and the tips calls of the other returned places succeed, the output is the descriptions of the other places, one per
\* line in the provider's order.
C6_OthersKept ==
    LET places == fn_in.search.results
        failed == { i \in 1..Len(places) : TipFails(fn_in.tips[places[i].fsq_id]) }
        kept == SelectSeq([i \in 1..Len(places) |-> i], LAMBDA i : i \notin failed)
        described(i) ==
            LET tip == fn_in.tips[places[i].fsq_id]
            IN  places[i].name \o ": "
                    \o str_join(" ", [j \in 1..Len(tip.tips) |-> tip.tips[j].text])
    IN  ( /\ fn_out.done
          /\ fn_in.geo.kind = "found"
          /\ fn_in.fsq_api_key # PyNone
          /\ fn_in.search.kind = "response"
          /\ fn_in.search.status_code = 200
          /\ Cardinality(failed) = 1
          /\ kept # <<>> ) =>
        /\ ~fn_out.result.raised
        /\ fn_out.result.value.d.output =
               PyStr(str_join("\n", [k \in 1..Len(kept) |-> described(kept[k])]))

-----------------------------------------------------------------------------
(* Specification of the geocoder adapter on its own: calls of              *)
(* get_location_data as time passes                                        *)

\* the last location ends in '\r\n'
GeoLocations ==
    { loc_Pune, location_eq \o loc_Pune,
      location_eq \o chars(<<" ">>) \o loc_Pune \o chars(<<" ">>),
      chars(<<" ">>) \o location_eq \o loc_Pune,
      chars(<<" ">>) \o loc_Pune \o chars(<<" ">>),
      location_eq \o loc_Pune \o <<13, 10>> }

InitGeo ==
    /\ InitUI
    /\ fn_in = [location |-> <<>>, geo |-> [kind |-> "none"]]
    /\ fn_out = [done |-> FALSE]

\* a second passes
Tick ==
    /\ now < MaxClock
    /\ now' = now + 1
    /\ UNCHANGED <<messages, pc, prompt, uuid_count, tool_calls, turns,
                   dispatched, last_tool, ui_error, fn_in, fn_out>>

\* one call of get_location_data; the caller resumes when the provider call
\* has been dispatched and answered
GeocodeCall ==
    /\ Len(dispatched) < MaxGeoCalls
    /\ \E location \in GeoLocations, geo \in GeoAnswers :
           LET r == get_location_data(location, now, geo) IN
           /\ fn_in' = [location |-> location, geo |-> geo]
           /\ fn_out' = [done |-> TRUE, result |-> r]
           /\ dispatched' = Append(dispatched, r.dispatched_at)
           /\ now' = r.dispatched_at
    /\ UNCHANGED <<messages, pc, prompt, uuid_count, tool_calls, turns,
                   last_tool, ui_error>>

NextGeo == Tick \/ GeocodeCall

SpecGeo == InitGeo /\ [][NextGeo]_vars

\* C10: of two consecutive geocode calls the second is dispatched at least one
\* second after the first.
C10_Spacing ==
    \A i \in 1..(Len(dispatched) - 1) :
        dispatched[i + 1] - dispatched[i] >= min_delay_seconds

-----------------------------------------------------------------------------
(* Specification of the tool-end callback on its own *)

CallbackLogs ==
    { << first_message, [role |-> "user", content |-> "route?"] >>,
      << first_message, [role |-> "user", content |-> "route?"],
         [geocode_points |-> PyList(<< <<18, 73>> >>)] >>,
      << first_message, [role |-> "user", content |-> "route?"],
         [geocode_points |-> PyList(<< <<18, 73>> >>), figure_key |-> 1],
         [role |-> "assistant", content |-> "Done"],
         [role |-> "user", content |-> "and back?"] >> }

CallbackTexts == { PyStr("x"), PyStr("- Head north\n- Turn left"), PyNone }

CallbackPoints ==
    { PyNone, PyStr(""), PyList(<<>>), PyList(<< <<18, 73>> >>),
      PyList(<< <<1, 2>>, <<3, 4>> >>), PyDict([a |-> PyStr("b")]) }

CallbackOutputs ==
    { PyStr("Pune is a city in India."), PyStr("") }
    \cup { PyDict([output |-> o]) : o \in CallbackTexts }
    \cup { PyDict([output |-> o, geocode_points |-> g]) :
               o \in CallbackTexts, g \in CallbackPoints }

InitCallback ==
    /\ InitUI
    /\ fn_in \in [output : CallbackOutputs, messages : CallbackLogs]
    /\ fn_out = [done |-> FALSE]

RunCallback ==
    /\ fn_out.done = FALSE
    /\ fn_out' = [done |-> TRUE, result |-> on_tool_end(fn_in.output, fn_in.messages)]
    /\ UNCHANGED <<fn_in, ui_vars>>

SpecCallback == InitCallback /\ [][RunCallback]_vars

\* the non-empty coordinate sequence of a tool output, if it has one
HasPoints(output) ==
    /\ output.t = "dict"
    /\ "geocode_points" \in DOMAIN output.d
    /\ output.d.geocode_points.t = "list"
    /\ output.d.geocode_points.l # <<>>

\* a tool output that carries no structured coordinates
NoPoints(output) ==
    \/ output.t = "str"
    \/ /\ output.t = "dict"
       /\ \/ "geocode_points" \notin DOMAIN output.d
          \/ output.d.geocode_points = PyNone
          \/ output.d.geocode_points = PyList(<<>>)

\* C1: for an envelope with a non-empty geocode_points S, on_tool_end appends
\* exactly one record holding S to the log and returns the envelope with
\* geocode_points emptied and every other field as it was; the agent's copy
\* of the output holds no coordinates.
C1_StripOnce ==
    (fn_out.done /\ HasPoints(fn_in.output)) =>
        LET r == fn_out.result IN
        /\ ~r.raised
        /\ r.messages = Append(fn_in.messages,
                               [geocode_points |-> fn_in.output.d.geocode_points])
        /\ r.returned.t = "dict"
        /\ DOMAIN r.returned.d = DOMAIN fn_in.output.d
        /\ r.returned.d.output = fn_in.output.d.output
        /\ r.returned.d.geocode_points = PyStr("")
        /\ r.output = r.returned

\* C1 witness: the envelope {output: "x", geocode_points: [[1,2],[3,4]]} has
\* passed through the callback and its coordinates are the last log record.
C1_Witness ==
    /\ fn_out.done
    /\ fn_in.output = PyDict([output |-> PyStr("x"),
                              geocode_points |-> PyList(<< <<1, 2>>, <<3, 4>> >>)])
    /\ fn_out.result.messages[Len(fn_out.result.messages)]
           = [geocode_points |-> PyList(<< <<1, 2>>, <<3, 4>> >>)]

\* C2: for an output without structured coordinates (plain text, an envelope
\* without geocode_points, an envelope whose geocode_points is empty) the
\* callback leaves the output and the log as they were.
C2_PassThrough ==
    (fn_out.done /\ NoPoints(fn_in.output)) =>
        /\ ~fn_out.result.raised
        /\ fn_out.result.output = fn_in.output
        /\ fn_out.result.messages = fn_in.messages

-----------------------------------------------------------------------------
(* The Streamlit script (main.py:44-70) and the agent run it starts.       *)
(* Streamlit runs the script from top to bottom on every interaction; an   *)
(* uncaught exception ends the run and leaves st.session_state as it is.   *)

Prompts == { "Route from Mumbai to Pune by cycle?" }
Responses == { "Here is your plan." }

\* get_route_leafmap(route) (utils.py:6-12): the exception it raises, or
\* "None" when it returns the map.  route[0] of line 7 raises IndexError on
\* an empty list and KeyError on a dict, whose keys are strings.
get_route_leafmap(route) ==
    IF route.t = "list"
    THEN IF route.l = <<>> THEN "IndexError" ELSE "None"
    ELSE "KeyError"

\* lines 47-55, the display loop: the exception it raises, or "None"
RECURSIVE display_loop(_)
display_loop(msgs) ==
    IF msgs = <<>> THEN "None"
    ELSE LET message == Head(msgs) IN
         IF "geocode_points" \in DOMAIN message /\ "figure_key" \notin DOMAIN message
         THEN "KeyError"
         ELSE IF "geocode_points" \in DOMAIN message
                     /\ get_route_leafmap(message.geocode_points) # "None"
         THEN get_route_leafmap(message.geocode_points)
         ELSE display_loop(Tail(msgs))

\* lines 44-58: a script run up to the call of make_request, with the value
\* chat_input returned (a prompt, or "None")
script_head(st_messages, chat_input) ==
    LET msgs == IF chat_input # "None"
                THEN Append(st_messages, [role |-> "user", content |-> chat_input])
                ELSE st_messages
        shown == display_loop(msgs)
        last == msgs[Len(msgs)]
    IN  IF shown # "None"
        THEN [messages |-> msgs, error |-> [exc |-> shown, origin |-> "display"],
              make_request |-> FALSE]
        ELSE IF "role" \notin DOMAIN last
        THEN [messages |-> msgs, error |-> [exc |-> "KeyError", origin |-> "script"],
              make_request |-> FALSE]
        ELSE [messages |-> msgs, error |-> no_error,
              make_request |-> last.role # "assistant"]

\* the user submits a prompt: a script run with chat_input returning it
Submit ==
    /\ pc = "idle"
    /\ turns < MaxTurns
    /\ \E p \in Prompts :
           LET h == script_head(messages, p) IN
           /\ messages' = h.messages
           /\ prompt' = p
           /\ ui_error' = h.error
           /\ pc' = IF h.make_request THEN "agent" ELSE "idle"
    /\ turns' = turns + 1
    /\ tool_calls' = 0
    /\ UNCHANGED <<uuid_count, now, dispatched, last_tool, fn_in, fn_out>>

\* any other interaction (a map is panned or clicked): a script run with
\* chat_input returning None
Rerun ==
    /\ pc = "idle"
    /\ LET h == script_head(messages, "None") IN
       /\ messages' = h.messages
       /\ prompt' = "None"
       /\ ui_error' = h.error
       /\ pc' = IF h.make_request THEN "agent" ELSE "idle"
    /\ tool_calls' = 0
    /\ UNCHANGED <<uuid_count, turns, now, dispatched, last_tool, fn_in, fn_out>>

\* One tool invocation inside agent_executor.invoke (chatAgent.py:200).  The
\* tools are added as they are (main.py:39-41), without handle_tool_error,
\* so an exception of a tool leaves the executor, make_request and the
\* script run.  A tool that returns has its output passed to on_tool_end
\* (the tools here return a list for geocode_points, or no such field, so
\* the callback does not raise).
tool_step(tool, result) ==
    IF result.raised
    THEN /\ pc' = "idle"
         /\ ui_error' = [exc |-> result.exc, origin |-> "tool"]
         /\ last_tool' = [kind |-> "error", tool |-> tool]
         /\ UNCHANGED <<messages, tool_calls>>
    ELSE LET r == on_tool_end(result.value, messages) IN
         /\ messages' = r.messages
         /\ last_tool' = [kind |-> "end", tool |-> tool, observation |-> r.output]
         /\ tool_calls' = tool_calls + 1
         /\ UNCHANGED <<pc, ui_error>>

MainRouteInputs ==
    { Rejected("SyntaxError"), Rejected("ValueError"),
      Parsed(PyDict([locations |-> <<loc_Mumbai, loc_Pune>>,
                     transportation_mode |-> kw_cycle])) }

MainRouteAnswers ==
    { [kind |-> "urlopen_error"] }
    \cup { [kind |-> "body", itineraryItems |-> its] :
               its \in { <<>>,
                         << [instruction |-> [text |-> "Head north"],
                             maneuverPoint |-> [coordinates |-> <<18, 73>>]] >>,
                         << [instruction |-> [text |-> "Head north"],
                             maneuverPoint |-> [coordinates |-> <<18, 73>>]],
                            [instruction |-> [text |-> "Turn left"],
                             maneuverPoint |-> [coordinates |-> <<19, 72>>]] >> } }

\* the agent invokes the route tool
RouteToolCall ==
    /\ pc = "agent"
    /\ tool_calls < MaxToolCalls
    /\ \E input_data \in MainRouteInputs, key \in {PyNone, bing_key},
          net \in MainRouteAnswers :
           tool_step("Route Retriever", RouteRetriever_run(input_data, key, net))
    /\ UNCHANGED <<prompt, uuid_count, turns, now, dispatched, fn_in, fn_out>>

\* the agent invokes the places tool, which dispatches one geocode provider
\* call whether it then returns or raises (the model follows the session up
\* to MaxGeoCalls such calls)
PlacesToolCall ==
    /\ pc = "agent"
    /\ tool_calls < MaxToolCalls
    /\ Len(dispatched) < MaxGeoCalls
    /\ \E geo \in GeoAnswers, key \in {PyNone, fsq_key},
          tip \in { [kind |-> "error"],
                    [kind |-> "response", status_code |-> 200,
                     tips |-> << [text |-> "Nice view"] >>] } :
           LET r == PlacesOfInterestTool_run(loc_Pune, now, geo, key,
                        [kind |-> "response", status_code |-> 200,
                         results |-> << [name |-> "Gateway", fsq_id |-> "f1"] >>],
                        [id \in FsqIds |-> tip])
           IN  /\ tool_step("Places Of Interest Retriever", r)
               /\ dispatched' = Append(dispatched, r.dispatched_at)
               /\ now' = r.dispatched_at
    /\ UNCHANGED <<prompt, uuid_count, turns, fn_in, fn_out>>

\* the agent invokes the wikipedia tool (main.py:38), whose output is text
WikipediaToolCall ==
    /\ pc = "agent"
    /\ tool_calls < MaxToolCalls
    /\ tool_step("wikipedia",
                 [raised |-> FALSE, exc |-> "None",
                  value |-> PyStr("Pune is a city in India.")])
    /\ UNCHANGED <<prompt, uuid_count, turns, now, dispatched, fn_in, fn_out>>

\* make_request returns the agent's answer: lines 62-70
AgentFinish ==
    /\ pc = "agent"
    /\ \E response \in Responses :
           LET n == Len(messages)
               last == messages[n]
           IN  IF n > 1 /\ "geocode_points" \in DOMAIN last
               THEN LET figure_key == uuid_count + 1 IN
                    /\ uuid_count' = uuid_count + 1
                    /\ IF get_route_leafmap(last.geocode_points) # "None"
                       THEN /\ ui_error' = [exc |-> get_route_leafmap(last.geocode_points),
                                            origin |-> "render"]
                            /\ UNCHANGED messages
                       ELSE /\ ui_error' = no_error
                            /\ messages' =
                                 Append([messages EXCEPT ![n] =
                                            [geocode_points |-> last.geocode_points,
                                             figure_key |-> figure_key]],
                                        [role |-> "assistant", content |-> response])
               ELSE /\ ui_error' = no_error
                    /\ messages' = Append(messages,
                                          [role |-> "assistant", content |-> response])
                    /\ UNCHANGED uuid_count
    /\ pc' = "idle"
    /\ UNCHANGED <<prompt, tool_calls, turns, now, dispatched, last_tool, fn_in, fn_out>>

\* a model call of the agent fails (the API is unreachable): the exception
\* leaves make_request
AgentError ==
    /\ pc = "agent"
    /\ pc' = "idle"
    /\ ui_error' = [exc |-> "Exception", origin |-> "llm"]
    /\ UNCHANGED <<messages, prompt, uuid_count, tool_calls, turns, now, dispatched,
                   last_tool, fn_in, fn_out>>

Init ==
    /\ InitUI
    /\ fn_in = [none |-> TRUE]
    /\ fn_out = [done |-> FALSE]

Next ==
    \/ Submit
    \/ Rerun
    \/ RouteToolCall
    \/ PlacesToolCall
    \/ WikipediaToolCall
    \/ AgentFinish
    \/ AgentError

Spec == Init /\ [][Next]_vars

\* the coordinate records of the log
IsRecord(m) == "geocode_points" \in DOMAIN m

\* C3: once the script run of a turn has completed, every coordinate record
\* of the log has its render key, also when the turn produced several.
C3_EveryRecordKeyed ==
    (pc = "idle" /\ ui_error = no_error) =>
        \A i \in 1..Len(messages) :
            IsRecord(messages[i]) => "figure_key" \in DOMAIN messages[i]

\* C4: no error raised by a tool leaves the agent run and reaches the script.
C4_ToolErrorsCaught ==
    ui_error.origin # "tool"

\* C11: an agent run is only ever in progress in a script run that received
\* a new user prompt: a render pass without a prompt starts no agent run, so
\* a prompt has at most the one run its own script run started.
C11_RunNeedsPrompt ==
    pc = "agent" => prompt # "None"

\* a step keeps every message of the log in its place and as it was, except
\* that a coordinate record without render key may gain one
AppendOnlyStep ==
    /\ Len(messages') >= Len(messages)
    /\ \A i \in 1..Len(messages) :
           \/ messages'[i] = messages[i]
           \/ /\ IsRecord(messages[i])
              /\ "figure_key" \notin DOMAIN messages[i]
              /\ DOMAIN messages'[i] = {"geocode_points", "figure_key"}
              /\ messages'[i].geocode_points = messages[i].geocode_points

IsRole(m, role) == "role" \in DOMAIN m /\ m.role = role

\* every assistant answer follows a user message with only coordinate
\* records in between, and every coordinate record follows a user message
\* or another coordinate record
TurnOrder ==
    /\ \A i \in 2..Len(messages) :
           IsRole(messages[i], "assistant") =>
               \E j \in 1..(i - 1) :
                   /\ IsRole(messages[j], "user")
                   /\ \A k \in (j + 1)..(i - 1) : IsRecord(messages[k])
    /\ \A i \in 1..Len(messages) :
           IsRecord(messages[i]) =>
               /\ i > 1
               /\ IsRecord(messages[i - 1]) \/ IsRole(messages[i - 1], "user")

\* C12: the log is append-only and in arrival order: no step removes,
\* reorders or rewrites a message, the only change to a message being a
\* render key added to a coordinate record; within a turn the order is user
\* message, coordinate records, assistant message.
C12_AppendOnly ==
    []TurnOrder /\ [][AppendOnlyStep]_vars

\* C12 witness: a turn has ended with its user message, a keyed coordinate
\* record and the assistant's answer as the last three messages of the log.
C12_Witness ==
    /\ pc = "idle"
    /\ Len(messages) >= 4
    /\ IsRole(messages[Len(messages) - 2], "user")
    /\ IsRecord(messages[Len(messages) - 1])
    /\ "figure_key" \in DOMAIN messages[Len(messages) - 1]
    /\ IsRole(messages[Len(messages)], "assistant")

\* the query with surrounding whitespace trimmed and an optional 'location='
\* prefix removed
TrimmedQuery(location) ==
    LET t == str_strip(location) IN
    IF str_startswith(t, location_eq)
    THEN str_strip(SubSeq(t, Len(location_eq) + 1, Len(t)))
    ELSE t

\* C13: the geocoder receives the query without its optional 'location='
\* prefix and without surrounding whitespace, with or without the prefix and
\* with or without whitespace before the prefix.
C13_QueryTrimmed ==
    fn_out.done => fn_out.result.query = TrimmedQuery(fn_in.location)

\* C14: whenever a render pass can start, the last message of the log has a
\* role and every coordinate record has its render key, so neither the
\* display loop nor the last-message test reads a missing field.
C14_RenderSafe ==
    pc = "idle" =>
        /\ "role" \in DOMAIN messages[Len(messages)]
        /\ \A i \in 1..Len(messages) :
               IsRecord(messages[i]) => "figure_key" \in DOMAIN messages[i]

====
